---- MODULE Spec2Model ----
(***************************************************************************)
(* Tool Orchestration & Workflow Execution Core of hr-mistral-bot.         *)
(*                                                                         *)
(*   tool_executor.py  ToolPolicy, ToolRegistry, ToolExecutor              *)
(*   mcp_client.py     MCPServerConnection, MCPClientManager,              *)
(*                     LocalMCPServer, MCPOrchestrator                     *)
(*   agent_core.py     MemorySystem (tasks), WorkflowEngine                *)
(*   skills_extended.py BaseSkill, SkillsRegistry                          *)
(*                                                                         *)
(* Python's None is the string "none"; a dict is a function whose DOMAIN   *)
(* is its key set; a list is a sequence.                                   *)
(***************************************************************************)
EXTENDS Integers, Sequences, FiniteSets, TLC

VARIABLES
    \* ---- tool_executor.py: ToolExecutor / ToolPolicy / ToolRegistry ----
    registry,           \* ToolRegistry.tools: name -> tool_type
    local_handlers,     \* ToolExecutor._local_handlers (key set)
    mcp_orchestrator,   \* ToolExecutor._mcp_orchestrator is set
    extended_skills,    \* ToolExecutor._extended_skills is set
    skill_loader,       \* SkillLoader.skills as tool -> skill name
    blocked,            \* ToolPolicy.blocked
    rate_limits,        \* ToolPolicy.rate_limits: name -> calls per minute,
                        \* 0 where .get(name) is falsy (no entry)
    rate_counters,      \* ToolExecutor._rate_counters: name -> timestamps
    now,                \* datetime.now().timestamp(), in seconds
    last,               \* the latest execute() call and what it returned
    allowed_log,        \* every timestamp at which _check_rate_limit let a
                        \* rate-limited tool through (history, never pruned)
    \* ---- mcp_client.py: MCPOrchestrator / MCPClientManager ----
    server_order,       \* MCPClientManager.servers: key order of the dict
    conn,               \* MCPClientManager.servers: name -> MCPServerConnection
    behaviour,          \* what the child process behind each config does
    cm_tool_to_server,  \* MCPClientManager.tool_to_server
    orch_tool_to_server,\* MCPOrchestrator.tool_to_server
    init_pc,            \* position of MCPOrchestrator.initialize()
    init_idx,           \* connect_all's position in servers.items()
    orch_last,          \* what the last MCPOrchestrator.call_tool returned
    failed_io,          \* connections on which an exchange of a tool call
                        \* has failed since they were connected
    mgmt_last,          \* what the last add_external_server /
                        \* remove_external_server returned
    pending_disconnect, \* removed servers whose disconnect() task, created
                        \* by remove_server, has not run yet
    orphan_procs,       \* removed servers whose child process still runs
    \* ---- mcp_client.py: concurrent calls on one stdio connection ----
    call_pc,            \* per caller task: "idle", "scheduled" (the task
                        \* exists and has not run yet) or "written" (it is
                        \* inside _send_request, between write and readline)
    call_id,            \* per caller task: the id of the request it wrote
    loop_owner,         \* the task the event loop's thread is running, 0
                        \* when the loop is free to pick one
    wire,               \* what has passed through the connection's pipes:
                        \* requests written and reply lines read, in order
    \* ---- agent_core.py: WorkflowEngine / MemorySystem / ToolRegistry ----
    wf_tools,           \* agent_core.ToolRegistry._tools (key set)
    active_workflows,   \* WorkflowEngine.active_workflows: id -> Task
    store,              \* rows of the tasks table: id -> row
    wf_pc,              \* per continue_workflow call: "idle" or "awaiting"
    wf_id,              \* per call: the task id it was given
    wf_ref,             \* per call: "active" (the shared Task object of
                        \* active_workflows) or "loaded" (its own object,
                        \* built by get_task)
    wf_local,           \* per call: the Task object when wf_ref = "loaded"
    attempts,           \* log of the execute_step calls made, each with
                        \* the number of the process run that made it
    wf_terminal,        \* per task id: the status a continue_workflow first
                        \* stored as COMPLETED or FAILED, and the number of
                        \* execute_step calls made for the task by then
    wf_last,            \* what the last start_workflow / continue_workflow
                        \* to finish returned or raised
    crashes             \* process restarts so far

execVars == <<registry, local_handlers, mcp_orchestrator, extended_skills,
              skill_loader, blocked, rate_limits, rate_counters, now, last,
              allowed_log>>
orchVars == <<server_order, conn, behaviour, orch_last, failed_io, cm_tool_to_server,
              orch_tool_to_server, init_pc, init_idx>>
wfVars == <<wf_tools, active_workflows, store, wf_pc, wf_id, wf_ref,
            wf_local, attempts, wf_terminal, wf_last, crashes>>
connVars == <<call_pc, call_id, loop_owner, wire>>
mgmtVars == <<mgmt_last, pending_disconnect, orphan_procs>>
vars == <<execVars, orchVars, wfVars, connVars, mgmtVars>>

None == "none"

(***************************************************************************)
(* Bounds of the model.                                                    *)
(***************************************************************************)
MaxLimit == 3
MaxTime == 70
TimeStep == 10

(***************************************************************************)
(* Static data of the program.                                             *)
(***************************************************************************)
ToolTypes == {"local", "mcp_ext", "mcp_local", "extended"}

require_confirmation == {"terminal_execute", "fs_delete", "memory_clear"}

RateWindow == 60

\* SkillsRegistry.skills: skill name -> names of its SkillTools
RegistrySkills ==
    [s \in {"terminal", "image"} |->
        IF s = "terminal" THEN {"terminal_execute"} ELSE {"image_generate"}]

\* LocalMCPServer instances built by _init_local_servers: server -> tools
LocalServers == [s \in {"hr"} |-> {"create_offer"}]

\* Tool names the agent loop may ask for.
ToolNames == {"terminal_execute", "image_generate", "create_offer", "unknown_tool"}

\* What a tool handler (or the process behind a provider) does when invoked:
\* it returns plain text or a structured payload, or it fails.
HandlerBehaviours == {"text", "payload", "raise"}

(***************************************************************************)
(* Outcome of a dispatched call: it returns a value or raises; invoked     *)
(* tells whether a tool handler / provider was actually entered.           *)
(***************************************************************************)
Ret(v, inv) == [kind |-> "return", value |-> v, msg |-> "", invoked |-> inv]
Raise(m, inv) == [kind |-> "raise", value |-> None, msg |-> m, invoked |-> inv]

\* handler(**params): returns plain text or a structured payload, or raises.
CallHandler(hb) ==
    IF hb = "raise" THEN Raise("handler error", TRUE) ELSE Ret(hb, TRUE)

(***************************************************************************)
(* skills_extended.py                                                      *)
(***************************************************************************)
\* BaseSkill.execute
SkillExecute(skill, tool, hb) ==
    IF tool \in RegistrySkills[skill]
    THEN CallHandler(hb)
    ELSE Ret("error_object", FALSE)

\* SkillsRegistry.get_tool_names()[tool], or None
SkillOfTool(tool) ==
    IF \E s \in DOMAIN RegistrySkills : tool \in RegistrySkills[s]
    THEN CHOOSE s \in DOMAIN RegistrySkills : tool \in RegistrySkills[s]
    ELSE None

\* SkillsRegistry.execute_tool
RegistryExecuteTool(tool, hb) ==
    IF SkillOfTool(tool) = None
    THEN Ret("error_object", FALSE)
    ELSE SkillExecute(SkillOfTool(tool), tool, hb)

(***************************************************************************)
(* mcp_client.py: provider side of a call                                  *)
(***************************************************************************)
\* LocalMCPServer.call_tool: a handler exception becomes {"error": str(e)}
LocalServerCallTool(server, tool, hb) ==
    IF tool \notin LocalServers[server]
    THEN Ret("error_object", FALSE)
    ELSE IF hb = "raise" THEN Ret("error_object", TRUE) ELSE Ret(hb, TRUE)

\* MCPServerConnection.call_tool over stdio: _send_request gives the reply's
\* "result", or None when the exchange fails (an I/O error, a reply that is
\* not JSON, a reply without "result"); text content is joined, otherwise the
\* result itself is returned.
ConnCallTool(name, tool, hb) ==
    IF ~conn[name].connected
    THEN Ret("error_object", FALSE)
    ELSE IF ~conn[name].process
         THEN Ret(None, FALSE)
         ELSE IF hb = "raise"
              THEN Ret(None, TRUE)
              ELSE Ret(hb, TRUE)

\* MCPClientManager.call_tool
CmCallTool(tool, hb) ==
    IF tool \notin DOMAIN cm_tool_to_server
    THEN Ret("error_object", FALSE)
    ELSE LET server_name == cm_tool_to_server[tool] IN
         IF server_name \notin DOMAIN conn \/ ~conn[server_name].connected
         THEN Ret("error_object", FALSE)
         ELSE ConnCallTool(server_name, tool, hb)

\* MCPOrchestrator.call_tool
OrchCallTool(tool, hb) ==
    IF tool \notin DOMAIN orch_tool_to_server
    THEN Ret("error_object", FALSE)
    ELSE LET e == orch_tool_to_server[tool] IN
         IF e.is_extended
         THEN RegistryExecuteTool(tool, hb)
         ELSE IF e.is_local
              THEN IF e.server \in DOMAIN LocalServers
                   THEN LocalServerCallTool(e.server, tool, hb)
                   ELSE Ret("error_object", FALSE)
              ELSE CmCallTool(tool, hb)

(***************************************************************************)
(* tool_executor.py: ToolPolicy                                            *)
(***************************************************************************)
\* ToolPolicy.is_allowed
is_allowed(tool) == tool \notin blocked

\* ToolPolicy.needs_confirmation (defined by the policy, never called)
needs_confirmation(tool) == tool \in require_confirmation

(***************************************************************************)
(* tool_executor.py: ToolExecutor                                          *)
(***************************************************************************)
\* calls = [t for t in calls if t > minute_ago]
RecentCalls(calls, t) == SelectSeq(calls, LAMBDA c : c > t - RateWindow)

OverLimit_OffByOne(calls, limit) == Len(calls) > limit

\* if len(calls) >= limit: return False
OverLimit(calls, limit) == Len(calls) >= limit

\* ToolExecutor._check_rate_limit: the verdict and the counters it leaves
ChargeOverLimit(tool, t) ==
    LET limit == rate_limits[tool]
        calls == RecentCalls(rate_counters[tool], t)
    IN  IF limit = 0
        THEN [ok |-> TRUE, counters |-> rate_counters]
        ELSE [ok |-> ~OverLimit(calls, limit),
              counters |-> [rate_counters EXCEPT ![tool] = Append(calls, t)]]

_check_rate_limit(tool, t) ==
    LET limit == rate_limits[tool]
        calls == RecentCalls(rate_counters[tool], t)
    IN  IF limit = 0
        THEN [ok |-> TRUE, counters |-> rate_counters]
        ELSE IF OverLimit(calls, limit)
             THEN [ok |-> FALSE, counters |-> rate_counters]
             ELSE [ok |-> TRUE,
                   counters |-> [rate_counters EXCEPT ![tool] = Append(calls, t)]]

\* ToolExecutor._execute_local
_execute_local(tool, hb) ==
    IF tool \notin local_handlers
    THEN Raise("No local handler", FALSE)
    ELSE CallHandler(hb)

\* ToolExecutor._execute_mcp
_execute_mcp(tool, hb) ==
    IF ~mcp_orchestrator
    THEN Raise("MCP orchestrator not initialized", FALSE)
    ELSE OrchCallTool(tool, hb)

\* ToolExecutor._execute_mcp_local: MCPOrchestrator has no call_local_tool,
\* so the attribute lookup raises AttributeError
_execute_mcp_local(tool, hb) ==
    IF ~mcp_orchestrator
    THEN Raise("MCP orchestrator not initialized", FALSE)
    ELSE Raise("no attribute call_local_tool", FALSE)

\* ToolExecutor._execute_extended
_execute_extended(tool, hb) ==
    IF ~extended_skills
    THEN Raise("Extended skills not initialized", FALSE)
    ELSE LET skill_name == skill_loader[tool] IN
         IF skill_name = None
         THEN IF SkillOfTool(tool) # None
              THEN SkillExecute(SkillOfTool(tool), tool, hb)
              ELSE Raise("No skill found for tool", FALSE)
         ELSE IF skill_name \notin DOMAIN RegistrySkills
              THEN Raise("Skill not found", FALSE)
              ELSE SkillExecute(skill_name, tool, hb)

\* execute, step 4: routing by tool type, or the direct lookups for a name
\* the registry does not know; "not_found" is the early return of line 381
Dispatch(tool, hb) ==
    LET tool_def == registry[tool] IN
    IF tool_def # None
    THEN CASE tool_def = "local" -> _execute_local(tool, hb)
           [] tool_def = "mcp_ext" -> _execute_mcp(tool, hb)
           [] tool_def = "mcp_local" -> _execute_mcp_local(tool, hb)
           [] tool_def = "extended" -> _execute_extended(tool, hb)
    ELSE IF tool \in local_handlers
         THEN _execute_local(tool, hb)
         ELSE IF mcp_orchestrator
              THEN _execute_mcp(tool, hb)
              ELSE IF extended_skills
                   THEN _execute_extended(tool, hb)
                   ELSE [kind |-> "not_found", value |-> None,
                         msg |-> "Tool not found", invoked |-> FALSE]

\* ToolCallResult; raised tells that execute raised instead of returning
ToolCallResult(ok, res, err) ==
    [success |-> ok, result |-> res, error |-> err, raised |-> FALSE]

\* the try/except of execute around the dispatch
Propagate(out) ==
    CASE out.kind = "return" -> ToolCallResult(TRUE, out.value, None)
      [] out.kind = "not_found" -> ToolCallResult(FALSE, None, out.msg)
      [] out.kind = "raise" ->
            [success |-> FALSE, result |-> None, error |-> None, raised |-> TRUE]

TryExcept(out) ==
    CASE out.kind = "return" -> ToolCallResult(TRUE, out.value, None)
      [] out.kind = "not_found" -> ToolCallResult(FALSE, None, out.msg)
      [] out.kind = "raise" -> ToolCallResult(FALSE, None, out.msg)

NoCall == [kind |-> "none", value |-> None, msg |-> "", invoked |-> FALSE]

\* ToolExecutor.execute: verdict of the policy and rate-limit checks, the
\* dispatch outcome, the result handed back and the counters left behind
ExecuteCall(tool, hb) ==
    IF ~is_allowed(tool)
    THEN [verdict |-> "Blocked", out |-> NoCall,
          res |-> ToolCallResult(FALSE, None, "Tool is blocked"),
          counters |-> rate_counters]
    ELSE LET rl == _check_rate_limit(tool, now) IN
         IF ~rl.ok
         THEN [verdict |-> "RateLimited", out |-> NoCall,
               res |-> ToolCallResult(FALSE, None, "Rate limit exceeded"),
               counters |-> rl.counters]
         ELSE [verdict |-> "Allowed", out |-> Dispatch(tool, hb),
               res |-> TryExcept(Dispatch(tool, hb)),
               counters |-> rl.counters]

(***************************************************************************)
(* State after construction.                                               *)
(***************************************************************************)
\* MCPOrchestrator.__init__: _init_local_servers, then _init_extended_skills
\* (a name both expose keeps the later, extended, entry)
OrchConstructedMap ==
    LET localTools == UNION {LocalServers[s] : s \in DOMAIN LocalServers}
        skillTools == UNION {RegistrySkills[s] : s \in DOMAIN RegistrySkills}
    IN  [t \in localTools \cup skillTools |->
            IF t \in skillTools
            THEN [server |-> SkillOfTool(t), is_local |-> FALSE, is_extended |-> TRUE]
            ELSE [server |-> CHOOSE s \in DOMAIN LocalServers : t \in LocalServers[s],
                  is_local |-> TRUE, is_extended |-> FALSE]]

\* the name is known to the registry or to a provider the executor can reach
Resolves(tool) ==
    \/ registry[tool] # None
    \/ tool \in local_handlers
    \/ mcp_orchestrator /\ tool \in DOMAIN orch_tool_to_server
    \/ extended_skills /\ SkillOfTool(tool) # None

NoLast ==
    [called |-> FALSE, tool |-> None, at |-> 0, resolved |-> FALSE,
     verdict |-> None, out |-> NoCall,
     res |-> ToolCallResult(FALSE, None, None),
     counters_before |-> [t \in ToolNames |-> <<>>]]

(***************************************************************************)
(* agent_core.py: the workflow engine, its tool registry and the tasks     *)
(* table.                                                                  *)
(***************************************************************************)
\* ---- bounds ----
MaxCrashes == 1

TaskIds == {"t1"}
Procs == {1, 2}

\* keys of the parameter dicts; a key a dict does not hold maps to None
ParamKeys == {"type", "template", "status"}
NoParams == [k \in ParamKeys |-> None]

\* one template step; a step written without "required" reads as not
\* required (step.get("required") is None), one without "params" has {}
Step(name, tool, required, params) ==
    [name |-> name, tool |-> tool, required |-> required, params |-> params]

\* WorkflowEngine.WORKFLOWS, the two templates the model runs
WORKFLOWS ==
    [w \in {"process_candidate", "make_offer"} |->
        IF w = "process_candidate"
        THEN << Step("analyze_resume", "analyze_resume", TRUE, NoParams),
                Step("save_candidate", "save_candidate", TRUE, NoParams),
                Step("match_vacancies", "match_vacancies", FALSE, NoParams),
                Step("send_confirmation", "send_email", FALSE,
                     [NoParams EXCEPT !["template"] = "application_received"]) >>
        ELSE << Step("create_offer_doc", "create_document", TRUE,
                     [NoParams EXCEPT !["type"] = "offer"]),
                Step("update_status", "update_candidate_status", FALSE,
                     [NoParams EXCEPT !["status"] = "offer"]),
                Step("send_offer", "send_email", TRUE,
                     [NoParams EXCEPT !["template"] = "offer"]) >>]

WorkflowNames == DOMAIN WORKFLOWS \cup {"unknown_workflow"}

\* params a caller passes to start_workflow
CallerParams == {[NoParams EXCEPT !["status"] = "screening"]}

\* tools HRAgent._register_core_tools puts in its ToolRegistry that the
\* templates name
CoreWorkflowTools == {"save_candidate", "update_candidate_status"}

\* tools the templates name that only a later register_tool can add
OtherWorkflowTools ==
    {"analyze_resume", "match_vacancies", "send_email", "create_document"}

\* what a registered step tool does when called
StepOutcomes == {"ok", "reports_failure", "raise"}

\* the dict execute_step returns; None before the step has run
NoStepResult == [success |-> FALSE, result |-> None, error |-> None]
StepOk(payload) == [success |-> TRUE, result |-> payload, error |-> None]
StepErr(msg) == [success |-> FALSE, result |-> None, error |-> msg]

\* Task.error: None, or the text "Step '<name>' failed: <error>"
NoError == [step |-> None, error |-> None]
StepFailedText(name, err) == [step |-> name, error |-> err]

\* Task (dataclass) and the absence of one; Task.result, the dict
\* {"params": ..., "results": ...}, is held as the two fields params and
\* results
NoTask ==
    [status |-> "absent", steps |-> <<>>, current_step |-> 0,
     params |-> NoParams, results |-> <<>>, error |-> NoError]

\* TaskStatus: member name <-> stored value
TaskStatusValue(status) ==
    CASE status = "PENDING" -> "pending"
      [] status = "IN_PROGRESS" -> "in_progress"
      [] status = "NEEDS_INPUT" -> "needs_input"
      [] status = "COMPLETED" -> "completed"
      [] status = "FAILED" -> "failed"
      [] OTHER -> "absent"

TaskStatusOf(value) ==
    CASE value = "pending" -> "PENDING"
      [] value = "in_progress" -> "IN_PROGRESS"
      [] value = "needs_input" -> "NEEDS_INPUT"
      [] value = "completed" -> "COMPLETED"
      [] value = "failed" -> "FAILED"
      [] OTHER -> "absent"

\* json.dumps / json.loads on a leaf value: Python None is written as the
\* JSON literal null, and null is read back as None
JsonNull == "null"
JsonDumpsLeaf(v) == IF v = None THEN JsonNull ELSE v
JsonLoadsLeaf(j) == IF j = JsonNull THEN None ELSE j

\* json.dumps / json.loads on the dict execute_step returns
JsonDumpsResult(r) ==
    [success |-> r.success, result |-> JsonDumpsLeaf(r.result),
     error |-> JsonDumpsLeaf(r.error)]
JsonLoadsResult(j) ==
    [success |-> j.success, result |-> JsonLoadsLeaf(j.result),
     error |-> JsonLoadsLeaf(j.error)]

\* MemorySystem.save_task: the row written for a task (status.value, the
\* JSON text of steps and of result, the error text or NULL)
TaskRow(task) ==
    [status |-> TaskStatusValue(task.status),
     steps |-> [i \in DOMAIN task.steps |->
                  [task.steps[i] EXCEPT !.result = JsonDumpsResult(@)]],
     current_step |-> task.current_step,
     params |-> [k \in DOMAIN task.params |-> JsonDumpsLeaf(task.params[k])],
     results |-> [n \in DOMAIN task.results |-> JsonDumpsResult(task.results[n])],
     error |-> [step |-> JsonDumpsLeaf(task.error.step),
                error |-> JsonDumpsLeaf(task.error.error)]]

NoRow == TaskRow(NoTask)

\* a Task built from a row without reading its current_step column
TaskOfRow_DefaultStep(row) ==
    [status |-> TaskStatusOf(row.status),
     steps |-> [i \in DOMAIN row.steps |->
                  [row.steps[i] EXCEPT !.result = JsonLoadsResult(@)]],
     current_step |-> 0,
     params |-> [k \in DOMAIN row.params |-> JsonLoadsLeaf(row.params[k])],
     results |-> [n \in DOMAIN row.results |-> JsonLoadsResult(row.results[n])],
     error |-> [step |-> JsonLoadsLeaf(row.error.step),
                error |-> JsonLoadsLeaf(row.error.error)]]

\* MemorySystem.get_task: the Task built from a row
TaskOfRow(row) ==
    [status |-> TaskStatusOf(row.status),
     steps |-> [i \in DOMAIN row.steps |->
                  [row.steps[i] EXCEPT !.result = JsonLoadsResult(@)]],
     current_step |-> row.current_step,
     params |-> [k \in DOMAIN row.params |-> JsonLoadsLeaf(row.params[k])],
     results |-> [n \in DOMAIN row.results |-> JsonLoadsResult(row.results[n])],
     error |-> [step |-> JsonLoadsLeaf(row.error.step),
                error |-> JsonLoadsLeaf(row.error.error)]]

\* dict assignment d[k] = v
Put(d, k, v) == [x \in DOMAIN d \cup {k} |-> IF x = k THEN v ELSE d[x]]

\* {**b, **a}
Merge_FirstWins(a, b) == [k \in ParamKeys |-> IF a[k] # None THEN a[k] ELSE b[k]]

\* {**a, **b}
Merge(a, b) == [k \in ParamKeys |-> IF b[k] # None THEN b[k] ELSE a[k]]

\* no continue_workflow has stored the task as COMPLETED or FAILED yet
NoTerminal == [status |-> None, attempts |-> 0]

\* what the last engine call returned: nothing yet
NoWfLast == [op |-> None, id |-> None, raised |-> FALSE, status |-> None]

\* WorkflowEngine.__init__ over an empty tasks table
InitWfEngine ==
    /\ active_workflows = [id \in TaskIds |-> NoTask]
    /\ store = [id \in TaskIds |-> NoRow]
    /\ wf_pc = [p \in Procs |-> "idle"]
    /\ wf_id = [p \in Procs |-> None]
    /\ wf_ref = [p \in Procs |-> None]
    /\ wf_local = [p \in Procs |-> NoTask]
    /\ attempts = <<>>
    /\ wf_last = NoWfLast
    /\ wf_terminal = [id \in TaskIds |-> NoTerminal]
    /\ crashes = 0

\* HRAgent.__init__: the core tools registered, the engine idle
InitWfIdle ==
    /\ wf_tools = CoreWorkflowTools
    /\ InitWfEngine

\* SkillLoader.skills, read from SKILL.md files: no file, or a file naming a
\* skill the registry does not hold
LoaderConfigs ==
    {[t \in ToolNames |-> None],
     [t \in ToolNames |-> IF t = "terminal_execute" THEN "shell" ELSE None]}

\* ToolPolicy.rate_limits: one rate-limited tool, its ceiling a configuration
RateLimitConfigs ==
    {[t \in ToolNames |-> IF t = "image_generate" THEN n ELSE 0] : n \in 1..MaxLimit}

\* tasks that call a tool of one external provider at the same time
Callers == {1, 2, 3}

\* no add_external_server / remove_external_server made yet
NoMgmtLast ==
    [op |-> None, name |-> None, ok |-> FALSE, tools |-> {}, changed |-> FALSE,
     before |-> <<>>]

\* no such task exists, nothing has been written or read, no server added
\* or removed
InitCallers ==
    /\ mgmt_last = NoMgmtLast
    /\ pending_disconnect = {}
    /\ orphan_procs = {}
    /\ call_pc = [p \in Callers |-> "idle"]
    /\ call_id = [p \in Callers |-> 0]
    /\ loop_owner = 0
    /\ wire = <<>>

\* no MCPOrchestrator.call_tool made yet
NoOrchLast ==
    [called |-> FALSE, tool |-> None, out |-> Ret(None, FALSE),
     sent_to |-> None, request_id |-> 0, reply_id |-> 0, was_failed |-> FALSE]

\* MCPOrchestrator() with an empty mcp_config.json
InitOrchConstructed ==
    /\ server_order = <<>>
    /\ conn = <<>>
    /\ behaviour = <<>>
    /\ cm_tool_to_server = <<>>
    /\ orch_tool_to_server = OrchConstructedMap
    /\ init_pc = "idle"
    /\ init_idx = 0
    /\ orch_last = NoOrchLast
    /\ failed_io = {}
    /\ InitCallers

\* ToolExecutor.__init__ / ToolPolicy.__init__ / ToolRegistry.__init__
InitExec ==
    /\ registry = [t \in ToolNames |-> None]
    /\ local_handlers = {}
    /\ mcp_orchestrator = FALSE
    /\ extended_skills = FALSE
    /\ skill_loader \in LoaderConfigs
    /\ blocked = {}
    /\ rate_limits \in RateLimitConfigs
    /\ rate_counters = [t \in ToolNames |-> <<>>]
    /\ now = 0
    /\ last = NoLast
    /\ allowed_log = <<>>
    /\ InitOrchConstructed
    /\ InitWfIdle

(***************************************************************************)
(* Operations of the executor.                                             *)
(***************************************************************************)
\* (name, tool_type) pairs registered with ToolRegistry.register
Registrations ==
    {<<"terminal_execute", ty>> : ty \in ToolTypes}
        \cup {<<"image_generate", "extended">>}

\* ToolRegistry.register
register(tool, type) ==
    /\ registry[tool] # type
    /\ registry' = [registry EXCEPT ![tool] = type]
    /\ UNCHANGED <<local_handlers, mcp_orchestrator, extended_skills,
                   skill_loader, blocked, rate_limits, rate_counters, now,
                   last, allowed_log, orchVars, wfVars, connVars, mgmtVars>>

\* ToolExecutor.register_local_handler
register_local_handler(tool) ==
    /\ tool \notin local_handlers
    /\ local_handlers' = local_handlers \cup {tool}
    /\ UNCHANGED <<registry, mcp_orchestrator, extended_skills, skill_loader,
                   blocked, rate_limits, rate_counters, now, last,
                   allowed_log, orchVars, wfVars, connVars, mgmtVars>>

\* ToolExecutor.set_mcp_orchestrator
set_mcp_orchestrator ==
    /\ ~mcp_orchestrator
    /\ mcp_orchestrator' = TRUE
    /\ UNCHANGED <<registry, local_handlers, extended_skills, skill_loader,
                   blocked, rate_limits, rate_counters, now, last,
                   allowed_log, orchVars, wfVars, connVars, mgmtVars>>

\* ToolExecutor.set_extended_skills
set_extended_skills ==
    /\ ~extended_skills
    /\ extended_skills' = TRUE
    /\ UNCHANGED <<registry, local_handlers, mcp_orchestrator, skill_loader,
                   blocked, rate_limits, rate_counters, now, last,
                   allowed_log, orchVars, wfVars, connVars, mgmtVars>>

\* policy.blocked.add(tool): the switch ToolPolicy keeps for disabling a tool
BlockTool(tool) ==
    /\ tool \notin blocked
    /\ blocked' = blocked \cup {tool}
    /\ UNCHANGED <<registry, local_handlers, mcp_orchestrator, extended_skills,
                   skill_loader, rate_limits, rate_counters, now, last,
                   allowed_log, orchVars, wfVars, connVars, mgmtVars>>

\* await tool_executor.execute(tool, params, user_id)
Execute(tool, hb) ==
    LET c == ExecuteCall(tool, hb) IN
    /\ rate_counters' = c.counters
    /\ last' = [called |-> TRUE, tool |-> tool, at |-> now,
                resolved |-> Resolves(tool), verdict |-> c.verdict,
                out |-> c.out, res |-> c.res,
                counters_before |-> rate_counters]
    /\ allowed_log' = IF c.verdict = "Allowed" /\ rate_limits[tool] # 0
                      THEN Append(allowed_log, now)
                      ELSE allowed_log
    /\ UNCHANGED <<registry, local_handlers, mcp_orchestrator, extended_skills,
                   skill_loader, blocked, rate_limits, now, orchVars, wfVars, connVars, mgmtVars>>

\* the wall clock moves on between two calls
Advance(d) ==
    /\ now + d <= MaxTime
    /\ now' = now + d
    /\ UNCHANGED <<registry, local_handlers, mcp_orchestrator, extended_skills,
                   skill_loader, blocked, rate_limits, rate_counters, last,
                   allowed_log, orchVars, wfVars, connVars, mgmtVars>>

NextExec ==
    \/ \E r \in Registrations : register(r[1], r[2])
    \/ register_local_handler("terminal_execute")
    \/ set_mcp_orchestrator
    \/ set_extended_skills
    \/ BlockTool("image_generate")
    \/ \E tool \in ToolNames, hb \in HandlerBehaviours : Execute(tool, hb)

SpecExec == InitExec /\ [][NextExec]_vars

\* The executor wired as bot.py wires it for the extended skills
\* (register image_generate as extended, set_extended_skills), with the
\* clock running.
InitRate ==
    /\ registry = [t \in ToolNames |-> IF t = "image_generate" THEN "extended" ELSE None]
    /\ local_handlers = {}
    /\ mcp_orchestrator = FALSE
    /\ extended_skills = TRUE
    /\ skill_loader = [t \in ToolNames |-> None]
    /\ blocked = {}
    /\ rate_limits \in RateLimitConfigs
    /\ rate_counters = [t \in ToolNames |-> <<>>]
    /\ now = 0
    /\ last = NoLast
    /\ allowed_log = <<>>
    /\ InitOrchConstructed
    /\ InitWfIdle

NextRate ==
    \/ \E tool \in {"image_generate", "terminal_execute"}, hb \in {"text", "raise"} :
          Execute(tool, hb)
    \/ \E d \in {TimeStep, RateWindow} : Advance(d)
    \/ BlockTool("image_generate")

SpecRate == InitRate /\ [][NextRate]_vars

(***************************************************************************)
(* Properties of ToolExecutor.execute                                      *)
(***************************************************************************)

\* C1: execute is total: whatever the tool name, its registration, the policy
\* and rate-limit state and the handler's behaviour, it returns a
\* ToolCallResult and never raises to its caller; when the dispatched
\* handler or provider raises, the result has success = FALSE and its error
\* is the exception's message.
C1_ExecuteTotal ==
    last.called =>
        /\ ~last.res.raised
        /\ last.res.success \in BOOLEAN
        /\ last.out.kind = "raise" =>
              /\ last.res.success = FALSE
              /\ last.res.error = last.out.msg

\* a handler was entered and raised
C1_Witness ==
    /\ last.called
    /\ last.out.kind = "raise"
    /\ last.out.invoked
    /\ last.res.error = "handler error"

\* C5: a tool that requires confirmation is never dispatched by execute
\* without a prior-confirmation token (no call carries one: execute takes
\* none): the result is a refusal and the tool's handler is not invoked.
C5_ConfirmationGated ==
    (last.called /\ needs_confirmation(last.tool)) =>
        /\ last.res.success = FALSE
        /\ ~last.out.invoked

\* the allowed calls of log with a timestamp in (lo, hi]
CountIn(log, lo, hi) ==
    Cardinality({i \in 1..Len(log) : log[i] > lo /\ log[i] <= hi})

\* allowed_log as it was when the latest call was made
LogBefore ==
    IF last.verdict = "Allowed" /\ rate_limits[last.tool] # 0
    THEN SubSeq(allowed_log, 1, Len(allowed_log) - 1)
    ELSE allowed_log

\* C6: sliding 60-second window per tool: with ceiling N >= 1 a call (that
\* the blocklist lets through) is allowed iff fewer than N allowed calls
\* were made in the 60 seconds before it, so no 60-second window (s-60, s]
\* holds more than N allowed calls; a tool with no ceiling is never
\* rate-limited.
C6_SlidingWindow ==
    /\ (last.called /\ last.verdict # "Blocked" /\ rate_limits[last.tool] # 0) =>
          (last.verdict = "Allowed"
              <=> CountIn(LogBefore, last.at - RateWindow, last.at)
                     < rate_limits[last.tool])
    /\ \A i \in 1..Len(allowed_log) :
          CountIn(allowed_log, allowed_log[i] - RateWindow, allowed_log[i])
             <= rate_limits["image_generate"]
    /\ (last.called /\ rate_limits[last.tool] = 0) => last.verdict # "RateLimited"

\* ceiling 3: three calls allowed, the fourth within 10 seconds refused
C6_Witness ==
    /\ rate_limits["image_generate"] = 3
    /\ last.called /\ last.tool = "image_generate"
    /\ last.verdict = "RateLimited"
    /\ Len(allowed_log) = 3
    /\ last.at - allowed_log[1] <= 10
    /\ last.at > allowed_log[1]

\* C7: a Blocked or RateLimited verdict returns success = FALSE, dispatches
\* no handler or provider and leaves the rate-limit counters as they were.
C7_RefusalNotCharged ==
    (last.called /\ last.verdict \in {"Blocked", "RateLimited"}) =>
        /\ last.res.success = FALSE
        /\ ~last.out.invoked
        /\ last.out.kind = "none"
        /\ rate_counters = last.counters_before

\* a call refused by the rate limit while the window holds earlier calls
C7_Witness ==
    /\ last.called
    /\ last.verdict = "RateLimited"
    /\ Len(rate_counters[last.tool]) = rate_limits[last.tool]
    /\ last.res.error = "Rate limit exceeded"

\* C8: a name that resolves in neither the registry nor any provider is
\* refused like a policy refusal: success = FALSE, nothing dispatched,
\* nothing charged to the rate-limit counters.
C8_NotFoundShortCircuits ==
    (last.called /\ ~last.resolved /\ last.verdict = "Allowed") =>
        /\ last.res.success = FALSE
        /\ ~last.out.invoked
        /\ rate_counters = last.counters_before

\* C9: an error object answered by the owning provider is normalized into a
\* failed ToolCallResult with a populated error.
C9_ErrorObjectNormalized ==
    (last.called /\ last.out.kind = "return" /\ last.out.value = "error_object") =>
        /\ last.res.success = FALSE
        /\ last.res.error # None


(***************************************************************************)
(* agent_core.py: WorkflowEngine                                           *)
(***************************************************************************)
\* a Task built with its first step already passed
NewTask_SkipFirst(name, params) ==
    [status |-> "IN_PROGRESS",
     steps |-> [i \in 1..Len(WORKFLOWS[name]) |->
                  [step |-> WORKFLOWS[name][i],
                   status |-> IF i = 1 THEN "completed" ELSE "pending",
                   result |-> NoStepResult]],
     current_step |-> 1, params |-> params, results |-> <<>>,
     error |-> NoError]

\* the Task start_workflow builds from a template
NewTask(name, params) ==
    [status |-> "IN_PROGRESS",
     steps |-> [i \in 1..Len(WORKFLOWS[name]) |->
                  [step |-> WORKFLOWS[name][i], status |-> "pending",
                   result |-> NoStepResult]],
     current_step |-> 0, params |-> params, results |-> <<>>,
     error |-> NoError]

\* the record of steps at the 0-based index task.current_step
CurrentStep(task) == task.steps[task.current_step + 1]

\* execute_step: the parameters given to the tool
StepParams(task) == Merge(task.params, CurrentStep(task).step.params)

\* execute_step reading the payload's own success flag
StepResult_ReadsPayload(outcome) ==
    CASE outcome = "ok" -> StepOk("payload")
      [] outcome = "reports_failure" -> StepErr("payload reports failure")
      [] outcome = "raise" -> StepErr("boom")
      [] OTHER -> StepErr("Tool not found")

\* execute_step: what it returns once the tool has behaved as `outcome`
StepResult(outcome) ==
    CASE outcome = "ok" -> StepOk("payload")
      [] outcome = "reports_failure" -> StepOk("success_false_payload")
      [] outcome = "raise" -> StepErr("boom")
      [] OTHER -> StepErr("Tool not found")

\* the loop body with the required-step rule advancing past the failed step
RecordStep_AdvanceOnFailure(task, step_result) ==
    LET i == task.current_step + 1
        name == task.steps[i].step.name
        recorded ==
            [task EXCEPT
               !.steps[i].status = IF step_result.success THEN "completed" ELSE "failed",
               !.steps[i].result = step_result,
               !.results = Put(task.results, name, step_result),
               !.current_step = task.current_step + 1]
    IN IF ~step_result.success /\ task.steps[i].step.required
       THEN [task |-> [recorded EXCEPT
                         !.status = "FAILED",
                         !.error = StepFailedText(name, step_result.error)],
             broke |-> TRUE]
       ELSE [task |-> recorded, broke |-> FALSE]

\* the loop body with every failed step failing the task
RecordStep_FailAny(task, step_result) ==
    LET i == task.current_step + 1
        name == task.steps[i].step.name
        recorded ==
            [task EXCEPT
               !.steps[i].status = IF step_result.success THEN "completed" ELSE "failed",
               !.steps[i].result = step_result,
               !.results = Put(task.results, name, step_result)]
    IN IF ~step_result.success
       THEN [task |-> [recorded EXCEPT
                         !.status = "FAILED",
                         !.error = StepFailedText(name, step_result.error)],
             broke |-> TRUE]
       ELSE [task |-> [recorded EXCEPT !.current_step = task.current_step + 1],
             broke |-> FALSE]

\* the loop body leaving the loop on a required failure without setting
\* the Task's status
RecordStep_BreakKeepsStatus(task, step_result) ==
    LET i == task.current_step + 1
        name == task.steps[i].step.name
        recorded ==
            [task EXCEPT
               !.steps[i].status = IF step_result.success THEN "completed" ELSE "failed",
               !.steps[i].result = step_result,
               !.results = Put(task.results, name, step_result)]
    IN IF ~step_result.success /\ task.steps[i].step.required
       THEN [task |-> recorded, broke |-> TRUE]
       ELSE [task |-> [recorded EXCEPT !.current_step = task.current_step + 1],
             broke |-> FALSE]

\* the loop body without the write to task.result["results"]
RecordStep_SkipResults(task, step_result) ==
    LET i == task.current_step + 1
        name == task.steps[i].step.name
        recorded ==
            [task EXCEPT
               !.steps[i].status = IF step_result.success THEN "completed" ELSE "failed",
               !.steps[i].result = step_result]
    IN IF ~step_result.success /\ task.steps[i].step.required
       THEN [task |-> [recorded EXCEPT
                         !.status = "FAILED",
                         !.error = StepFailedText(name, step_result.error)],
             broke |-> TRUE]
       ELSE [task |-> [recorded EXCEPT !.current_step = task.current_step + 1],
             broke |-> FALSE]

\* continue_workflow's loop body after execute_step returned step_result;
\* broke = the loop was left by break
RecordStep(task, step_result) ==
    LET i == task.current_step + 1
        name == task.steps[i].step.name
        recorded ==
            [task EXCEPT
               !.steps[i].status = IF step_result.success THEN "completed" ELSE "failed",
               !.steps[i].result = step_result,
               !.results = Put(task.results, name, step_result)]
    IN IF ~step_result.success /\ task.steps[i].step.required
       THEN [task |-> [recorded EXCEPT
                         !.status = "FAILED",
                         !.error = StepFailedText(name, step_result.error)],
             broke |-> TRUE]
       ELSE [task |-> [recorded EXCEPT !.current_step = task.current_step + 1],
             broke |-> FALSE]

\* an execute_step call as the log keeps it
Attempt(id, task, invoked) ==
    [id |-> id, idx |-> task.current_step, tool |-> CurrentStep(task).step.tool,
     params |-> StepParams(task), invoked |-> invoked, run |-> crashes,
     allowed |-> is_allowed(CurrentStep(task).step.tool)]

\* continue_workflow's loop from its head, up to the point where it either
\* leaves the loop ("exit") or waits for a registered tool to return
\* ("await"); a step whose tool is not registered is recorded without
\* waiting.  log is the attempts log.
RECURSIVE RunLoop(_, _, _)
RunLoop(id, task, log) ==
    IF task.current_step >= Len(task.steps)
    THEN [task |-> task, log |-> log, at |-> "exit"]
    ELSE IF CurrentStep(task).step.tool \in wf_tools
         THEN [task |-> task, log |-> Append(log, Attempt(id, task, TRUE)),
               at |-> "await"]
         ELSE LET r == RecordStep(task, StepResult("not_found"))
                  log2 == Append(log, Attempt(id, task, FALSE))
              IN IF r.broke
                 THEN [task |-> r.task, log |-> log2, at |-> "exit"]
                 ELSE RunLoop(id, r.task, log2)

\* the completion test passing whatever current_step is
AfterLoop_Always(task) == [task EXCEPT !.status = "COMPLETED"]

\* continue_workflow after its loop: the completion test
AfterLoop(task) ==
    IF task.current_step >= Len(task.steps)
    THEN [task EXCEPT !.status = "COMPLETED"]
    ELSE task

\* the Task object a continue_workflow call works on
TaskOf(p) ==
    IF wf_ref[p] = "active" THEN active_workflows[wf_id[p]] ELSE wf_local[p]

\* the loop after one recorded step: left by break, or on from its head
LoopFrom(id, rec, log) ==
    IF rec.broke
    THEN [task |-> rec.task, log |-> log, at |-> "exit"]
    ELSE RunLoop(id, rec.task, log)

\* continue_workflow once its loop has run to r: the call p, holding its
\* Task under reference kind `ref`, waits for a tool (r.at = "await"), or
\* passes the completion test, calls save_task and returns (r.at = "exit")
Proceed(p, id, ref, r) ==
    LET t == IF r.at = "exit" THEN AfterLoop(r.task) ELSE r.task
    IN /\ attempts' = r.log
       /\ wf_id' = [wf_id EXCEPT ![p] = IF r.at = "exit" THEN None ELSE id]
       /\ wf_ref' = [wf_ref EXCEPT ![p] = IF r.at = "exit" THEN None ELSE ref]
       /\ wf_pc' = [wf_pc EXCEPT ![p] = IF r.at = "exit" THEN "idle" ELSE "awaiting"]
       /\ active_workflows' =
             IF ref = "active" THEN [active_workflows EXCEPT ![id] = t]
             ELSE active_workflows
       /\ wf_local' = [wf_local EXCEPT ![p] =
             IF ref = "loaded" /\ r.at = "await" THEN t ELSE NoTask]
       /\ store' = IF r.at = "exit" THEN [store EXCEPT ![id] = TaskRow(t)] ELSE store
       /\ wf_last' = IF r.at = "exit"
                     THEN [op |-> "continue", id |-> id, raised |-> FALSE,
                           status |-> t.status]
                     ELSE wf_last
       /\ wf_terminal' =
             IF r.at = "exit" /\ wf_terminal[id].status = None
             THEN [wf_terminal EXCEPT ![id] =
                     [status |-> t.status,
                      attempts |-> Len(SelectSeq(r.log, LAMBDA a : a.id = id))]]
             ELSE wf_terminal

\* WorkflowEngine.start_workflow; the id is the uuid prefix drawn
start_workflow(name, params, id) ==
    /\ active_workflows[id].status = "absent"
    /\ store[id].status = "absent"
    /\ IF name \in DOMAIN WORKFLOWS
       THEN /\ active_workflows' = [active_workflows EXCEPT ![id] = NewTask(name, params)]
            /\ store' = [store EXCEPT ![id] = TaskRow(NewTask(name, params))]
            /\ wf_last' = [op |-> "start", id |-> id, raised |-> FALSE,
                           status |-> "IN_PROGRESS"]
       ELSE /\ wf_last' = [op |-> "start", id |-> None, raised |-> TRUE,
                           status |-> None]
            /\ UNCHANGED <<active_workflows, store>>
    /\ UNCHANGED <<wf_tools, wf_pc, wf_id, wf_ref, wf_local, attempts,
                   wf_terminal, crashes>>
    /\ UNCHANGED <<execVars, orchVars, connVars, mgmtVars>>

\* WorkflowEngine.continue_workflow, from the call to its first wait or
\* its return
continue_workflow(p, id) ==
    /\ wf_pc[p] = "idle"
    /\ LET inmem == active_workflows[id]
           ref == IF inmem.status # "absent" THEN "active" ELSE "loaded"
           task == IF inmem.status # "absent" THEN inmem ELSE TaskOfRow(store[id])
       IN IF task.status = "absent"
          THEN /\ wf_last' = [op |-> "continue", id |-> id, raised |-> TRUE,
                              status |-> None]
                  /\ UNCHANGED <<active_workflows, store, wf_pc, wf_id, wf_ref,
                              wf_local, attempts, wf_terminal>>
          ELSE IF task.status # "IN_PROGRESS"
          THEN /\ wf_last' = [op |-> "continue", id |-> id, raised |-> FALSE,
                              status |-> task.status]
                  /\ UNCHANGED <<active_workflows, store, wf_pc, wf_id, wf_ref,
                              wf_local, attempts, wf_terminal>>
          ELSE \E r \in {RunLoop(id, task, attempts)} : Proceed(p, id, ref, r)
    /\ UNCHANGED <<wf_tools, crashes>>
    /\ UNCHANGED <<execVars, orchVars, connVars, mgmtVars>>

\* the tool a continue_workflow call waits for returns or raises; the call
\* runs on to its next wait or its return.  When another call has meanwhile
\* moved current_step to len(steps), task.steps[task.current_step] raises
\* IndexError and the call ends without save_task.
StepReturns(p, outcome) ==
    /\ wf_pc[p] = "awaiting"
    /\ IF TaskOf(p).current_step >= Len(TaskOf(p).steps)
       THEN /\ wf_pc' = [wf_pc EXCEPT ![p] = "idle"]
            /\ wf_last' = [op |-> "continue", id |-> wf_id[p], raised |-> TRUE,
                           status |-> None]
            /\ wf_id' = [wf_id EXCEPT ![p] = None]
            /\ wf_ref' = [wf_ref EXCEPT ![p] = None]
            /\ wf_local' = [wf_local EXCEPT ![p] = NoTask]
            /\ UNCHANGED <<active_workflows, store, attempts, wf_terminal>>
       ELSE \E rec \in {RecordStep(TaskOf(p), StepResult(outcome))} :
            \E r \in {LoopFrom(wf_id[p], rec, attempts)} :
               Proceed(p, wf_id[p], wf_ref[p], r)
    /\ UNCHANGED <<wf_tools, crashes>>
    /\ UNCHANGED <<execVars, orchVars, connVars, mgmtVars>>


\* the process dies and is started again: every object in memory is gone,
\* the tasks table stays
Crash ==
    /\ crashes < MaxCrashes
    /\ \E id \in TaskIds : store[id].status # "absent"
    /\ crashes' = crashes + 1
    /\ active_workflows' = [id \in TaskIds |-> NoTask]
    /\ wf_pc' = [p \in Procs |-> "idle"]
    /\ wf_id' = [p \in Procs |-> None]
    /\ wf_ref' = [p \in Procs |-> None]
    /\ wf_local' = [p \in Procs |-> NoTask]
    /\ wf_last' = NoWfLast
    /\ UNCHANGED <<wf_tools, store, attempts, wf_terminal>>
    /\ UNCHANGED <<execVars, orchVars, connVars, mgmtVars>>

\* the executor as ToolExecutor.__init__ leaves it, one rate-limit
\* configuration
InitExecFixed ==
    /\ registry = [t \in ToolNames |-> None]
    /\ local_handlers = {}
    /\ mcp_orchestrator = FALSE
    /\ extended_skills = FALSE
    /\ skill_loader = [t \in ToolNames |-> None]
    /\ blocked = {}
    /\ rate_limits = [t \in ToolNames |-> 0]
    /\ rate_counters = [t \in ToolNames |-> <<>>]
    /\ now = 0
    /\ last = NoLast
    /\ allowed_log = <<>>

\* HRAgent.__init__ followed by the register_tool calls of a deployment:
\* the core tools, and any of the other tools the templates name
InitWF ==
    /\ InitExecFixed
    /\ InitOrchConstructed
    /\ \E S \in SUBSET OtherWorkflowTools : wf_tools = CoreWorkflowTools \cup S
    /\ InitWfEngine

\* start, then continue calls one after the other, with restarts
NextWF ==
    \/ \E name \in WorkflowNames, params \in CallerParams, id \in TaskIds :
          start_workflow(name, params, id)
    \/ \E id \in TaskIds : continue_workflow(1, id)
    \/ \E outcome \in StepOutcomes : StepReturns(1, outcome)
    \/ Crash

SpecWF == InitWF /\ [][NextWF]_vars

\* every tool a continue_workflow call waits for returns or raises
FairWF == SpecWF /\ WF_vars(\E outcome \in StepOutcomes : StepReturns(1, outcome))

\* continue calls that overlap: a step tool that is a coroutine suspends,
\* and the event loop runs another continue_workflow meanwhile
NextWFConc ==
    \/ \E params \in CallerParams, id \in TaskIds :
          start_workflow("make_offer", params, id)
    \/ \E p \in Procs, id \in TaskIds : continue_workflow(p, id)
    \/ \E p \in Procs, outcome \in StepOutcomes : StepReturns(p, outcome)
    \/ Crash

\* a deployment that has registered every tool the templates name
InitWFConc ==
    /\ InitExecFixed
    /\ InitOrchConstructed
    /\ wf_tools = CoreWorkflowTools \cup OtherWorkflowTools
    /\ InitWfEngine

SpecWFConc == InitWFConc /\ [][NextWFConc]_vars

\* workflows run while the operator switches tools off in the policy of the
\* ToolExecutor (tool_executor.policy.blocked)
NextWFPolicy ==
    \/ \E name \in WorkflowNames, params \in CallerParams, id \in TaskIds :
          start_workflow(name, params, id)
    \/ \E id \in TaskIds : continue_workflow(1, id)
    \/ \E outcome \in StepOutcomes : StepReturns(1, outcome)
    \/ \E tool \in {"send_email", "create_document"} : BlockTool(tool)

SpecWFPolicy == InitWFConc /\ [][NextWFPolicy]_vars


(***************************************************************************)
(* Properties of WorkflowEngine.continue_workflow                          *)
(***************************************************************************)
\* the Task objects and stored Tasks of id: the one in active_workflows, the
\* one a running call loaded, the one the row of the tasks table holds
TaskViews(id) ==
    {t \in {active_workflows[id], TaskOfRow(store[id])}
           \cup {wf_local[p] : p \in {q \in Procs : wf_id[q] = id}} :
        t.status # "absent"}

AttemptsOf(id) == SelectSeq(attempts, LAMBDA a : a.id = id)

FailedRequired(t, i) == t.steps[i].status = "failed" /\ t.steps[i].step.required

FailedOptional(t, i) == t.steps[i].status = "failed" /\ ~t.steps[i].step.required

\* C2: a Task in which the required step at (0-based) index i is recorded
\* failed has status FAILED, current_step = i, an error naming that step,
\* every later step still pending, and the failed step's execute_step call
\* is the last one ever made for the Task.
C2_RequiredFailureStops ==
    \A id \in TaskIds : \A t \in TaskViews(id) : \A i \in 1..Len(t.steps) :
        FailedRequired(t, i) =>
            /\ t.status = "FAILED"
            /\ t.current_step = i - 1
            /\ t.error.step = t.steps[i].step.name
            /\ \A j \in (i + 1)..Len(t.steps) : t.steps[j].status = "pending"
            /\ AttemptsOf(id) # <<>>
            /\ AttemptsOf(id)[Len(AttemptsOf(id))].idx = i - 1

\* a stored Task of three or more steps whose second step, required, failed
\* after the first completed
C2_Witness ==
    \E id \in TaskIds :
        /\ store[id].status = "failed"
        /\ Len(store[id].steps) >= 3
        /\ store[id].steps[1].status = "completed"
        /\ FailedRequired(store[id], 2)
        /\ store[id].current_step = 1

\* C3: a step that is not required and is recorded failed has been passed
\* (current_step is beyond it); a Task is COMPLETED only with current_step =
\* len(steps); and a continue_workflow that returns a Task none of whose
\* required steps is recorded failed returns it COMPLETED with current_step =
\* len(steps), its failed optional steps still recorded failed.
C3_OptionalFailureAdvances ==
    \A id \in TaskIds : \A t \in TaskViews(id) :
        /\ \A i \in 1..Len(t.steps) : FailedOptional(t, i) => t.current_step >= i
        /\ t.status = "COMPLETED" => t.current_step = Len(t.steps)
        /\ ( /\ wf_last.op = "continue" /\ wf_last.id = id /\ ~wf_last.raised
             /\ \A i \in 1..Len(t.steps) : ~FailedRequired(t, i) )
           => /\ t.status = "COMPLETED"
              /\ wf_last.status = "COMPLETED"
              /\ t.current_step = Len(t.steps)
              /\ \A i \in 1..Len(t.steps) : t.steps[i].status \in {"completed", "failed"}

\* a stored Task, COMPLETED, whose second step is optional and recorded
\* failed while the first and third completed
C3_Witness ==
    \E id \in TaskIds :
        /\ store[id].status = "completed"
        /\ store[id].current_step = Len(store[id].steps)
        /\ store[id].steps[1].status = "completed"
        /\ FailedOptional(store[id], 2)
        /\ store[id].steps[3].status = "completed"

\* C4: whenever continue_workflow waits for the tool of a step, the row of
\* the tasks table holds the outcome of every step recorded so far and the
\* current_step reached.
C4_PersistedBeforeNextDispatch ==
    \A p \in Procs :
        wf_pc[p] = "awaiting" => store[wf_id[p]] = TaskRow(TaskOf(p))


(***************************************************************************)
(* mcp_client.py: external providers, MCPClientManager.connect_all and     *)
(* MCPOrchestrator.initialize                                              *)
(***************************************************************************)
\* ---- bounds ----
MaxRequestId == 4

\* the stdio providers of mcp_config.json and the tools each lists: srvA
\* and srvB both list shared_tool, srvC lists create_offer, which the
\* built-in server hr holds too
Servers == {"srvA", "srvB", "srvC"}

\* the provider a /mcp_add command may add while the bot runs
AddableServers == {"srvD"}

ServerTools ==
    [s \in Servers \cup AddableServers |->
        CASE s = "srvA" -> <<"shared_tool", "a_tool">>
          [] s = "srvB" -> <<"shared_tool", "b_tool">>
          [] s = "srvC" -> <<"c_tool", "create_offer">>
          [] OTHER -> <<"d_tool">>]

\* how a provider's process behaves when it is connected:
\*   ok               it answers every request with a result
\*   spawn_fail       Popen raises
\*   no_reply         it starts and never writes a line
\*   malformed_reply  it answers with lines that are not JSON objects (or
\*                    exits, so that readline gives an empty line)
\*   handshake_error  it answers initialize with a JSON-RPC error, then
\*                    works
\*   bad_tool_entry   its tools/list result holds an entry without "name"
\*                    after the first tool
ProviderBehaviours ==
    {"ok", "spawn_fail", "no_reply", "malformed_reply", "handshake_error",
     "bad_tool_entry"}

\* MCPServerConnection.__init__
NewConnection ==
    [process |-> FALSE, connected |-> FALSE, tools |-> <<>>, request_id |-> 0]

\* MCPServerConnection._send_request on a started process: "result" (the
\* reply's result), "none" (the exchange failed and the exception was
\* caught, or the reply has no result), or "block" (readline never returns)
SendRequest(b, method) ==
    CASE b = "no_reply" -> "block"
      [] b = "malformed_reply" -> "none"
      [] b = "handshake_error" /\ method = "initialize" -> "none"
      [] OTHER -> "result"

\* MCPServerConnection._load_tools given a result: the tools appended
\* before the loop ends or raises KeyError
LoadTools(name, b) ==
    IF b = "bad_tool_entry"
    THEN [tools |-> SubSeq(ServerTools[name], 1, 1), raised |-> TRUE]
    ELSE [tools |-> ServerTools[name], raised |-> FALSE]

\* MCPServerConnection._connect_stdio: the connection it leaves, whether it
\* returned True, or that it never returns
_connect_stdio(name, c, b) ==
    IF b = "spawn_fail"
    THEN [conn |-> c, ok |-> FALSE, blocked |-> FALSE]
    ELSE LET started == [c EXCEPT !.process = TRUE, !.request_id = c.request_id + 1]
             asked == [started EXCEPT !.request_id = started.request_id + 1]
         IN IF SendRequest(b, "initialize") = "block"
            THEN [conn |-> started, ok |-> FALSE, blocked |-> TRUE]
            ELSE IF SendRequest(b, "tools/list") = "block"
            THEN [conn |-> asked, ok |-> FALSE, blocked |-> TRUE]
            ELSE IF SendRequest(b, "tools/list") = "none"
            THEN [conn |-> [asked EXCEPT !.connected = TRUE],
                  ok |-> TRUE, blocked |-> FALSE]
            ELSE LET l == LoadTools(name, b) IN
                 IF l.raised
                 THEN [conn |-> [asked EXCEPT !.tools = c.tools \o l.tools],
                       ok |-> FALSE, blocked |-> FALSE]
                 ELSE [conn |-> [asked EXCEPT !.tools = c.tools \o l.tools,
                                              !.connected = TRUE],
                       ok |-> TRUE, blocked |-> FALSE]

Range(seq) == {seq[i] : i \in 1..Len(seq)}

\* for tool in tools: map[tool] = v
PutAll(map, tools, v) ==
    [t \in DOMAIN map \cup tools |-> IF t \in tools THEN v ELSE map[t]]

\* for server_name, connection in servers.items(): for tool in
\* connection.tools: tool_to_server[tool.name] = (server_name, False, False)
RECURSIVE MapExternalTools(_, _)
MapExternalTools(map, order) ==
    IF order = <<>> THEN map
    ELSE MapExternalTools(
            PutAll(map, Range(conn[Head(order)].tools),
                   [server |-> Head(order), is_local |-> FALSE, is_extended |-> FALSE]),
            Tail(order))

\* MCPOrchestrator.initialize is called
initialize_begin ==
    /\ init_pc = "idle"
    /\ init_pc' = "connecting"
    /\ init_idx' = 1
    /\ UNCHANGED <<server_order, conn, behaviour, orch_last, failed_io, cm_tool_to_server,
                   orch_tool_to_server>>
    /\ UNCHANGED <<execVars, wfVars, connVars, mgmtVars>>

\* MCPClientManager.connect_all: one turn of its loop; a connect that never
\* returns leaves initialize, and the thread that runs it, in readline
connect_next ==
    /\ init_pc = "connecting"
    /\ init_idx <= Len(server_order)
    /\ LET name == server_order[init_idx]
           r == _connect_stdio(name, conn[name], behaviour[name])
       IN /\ conn' = [conn EXCEPT ![name] = r.conn]
          /\ init_pc' = IF r.blocked THEN "blocked" ELSE "connecting"
          /\ init_idx' = IF r.blocked THEN init_idx ELSE init_idx + 1
          /\ cm_tool_to_server' =
                IF r.ok THEN PutAll(cm_tool_to_server, Range(r.conn.tools), name)
                ELSE cm_tool_to_server
    /\ UNCHANGED <<server_order, behaviour, orch_last, failed_io, orch_tool_to_server>>
    /\ UNCHANGED <<execVars, wfVars, connVars, mgmtVars>>

\* MCPOrchestrator.initialize after connect_all returned
initialize_merge ==
    /\ init_pc = "connecting"
    /\ init_idx > Len(server_order)
    /\ orch_tool_to_server' = MapExternalTools(orch_tool_to_server, server_order)
    /\ init_pc' = "done"
    /\ UNCHANGED <<server_order, conn, behaviour, orch_last, failed_io, cm_tool_to_server,
                   init_idx>>
    /\ UNCHANGED <<execVars, wfVars, connVars, mgmtVars>>

\* the connection a MCPOrchestrator.call_tool reaches, if any
ReachedConnection(tool) ==
    IF /\ tool \in DOMAIN orch_tool_to_server
       /\ ~orch_tool_to_server[tool].is_extended
       /\ ~orch_tool_to_server[tool].is_local
       /\ tool \in DOMAIN cm_tool_to_server
    THEN IF /\ cm_tool_to_server[tool] \in DOMAIN conn
            /\ conn[cm_tool_to_server[tool]].connected
            /\ conn[cm_tool_to_server[tool]].process
         THEN cm_tool_to_server[tool] ELSE None
    ELSE None

\* the ids a provider may put on the line it answers a request with: the
\* request's own, or that of the request before it
ReplyIds == {"same", "previous"}

\* the line the provider writes back: none that parses when hb = "raise"
\* (the write or the read fails, or the line is not JSON), else a reply
\* carrying an id and a result
ProviderReply(hb, rid, request_id) ==
    [parsed |-> hb # "raise",
     id |-> IF rid = "same" THEN request_id ELSE request_id - 1,
     result |-> IF rid = "same" THEN hb ELSE "stale_payload"]

\* MCPServerConnection._send_request once the request request_id is
\* written: json.loads of the line read, then response.get("result"); the
\* reply's id is not looked at.  "raise" stands for the exchange that failed
\* (None is returned)
SendRequestResult(request_id, reply) ==
    IF reply.parsed THEN reply.result ELSE "raise"

\* MCPOrchestrator.call_tool, run by the event loop while initialize is not
\* running; a call that reaches a connection writes one request and reads
\* one line
orch_call_tool(tool, hb, rid) ==
    /\ init_pc \in {"idle", "done"}
    /\ LET s == ReachedConnection(tool)
           request_id == IF s # None THEN conn[s].request_id + 1 ELSE 0
           reply == ProviderReply(hb, rid, request_id)
       IN /\ s # None => conn[s].request_id < MaxRequestId
          /\ s = None => rid = "same"
          /\ conn' = IF s # None
                     THEN [conn EXCEPT ![s].request_id = request_id]
                     ELSE conn
          /\ failed_io' = IF s # None /\ ~reply.parsed
                          THEN failed_io \cup {s} ELSE failed_io
          /\ orch_last' =
                [called |-> TRUE, tool |-> tool,
                 out |-> IF s # None
                         THEN OrchCallTool(tool, SendRequestResult(request_id, reply))
                         ELSE OrchCallTool(tool, hb),
                 sent_to |-> s, request_id |-> request_id,
                 reply_id |-> IF s # None /\ reply.parsed THEN reply.id ELSE 0,
                 was_failed |-> s \in failed_io]
    /\ UNCHANGED <<server_order, behaviour, cm_tool_to_server,
                   orch_tool_to_server, init_pc, init_idx>>
    /\ UNCHANGED <<execVars, wfVars, connVars, mgmtVars>>

\* orders of the entries of mcp_config.json
ServerOrders ==
    {o \in [1..Cardinality(Servers) -> Servers] : Range(o) = Servers}

\* MCPOrchestrator() over a config naming srvA, srvB and srvC in some
\* order; srvB and srvC work, srvA behaves in any of the ways
InitOrch ==
    /\ InitExecFixed
    /\ InitWfIdle
    /\ server_order \in ServerOrders
    /\ conn = [s \in Servers |-> NewConnection]
    /\ behaviour \in {b \in [Servers -> ProviderBehaviours] :
                         b["srvB"] = "ok" /\ b["srvC"] = "ok"}
    /\ cm_tool_to_server = <<>>
    /\ orch_tool_to_server = OrchConstructedMap
    /\ init_pc = "idle"
    /\ init_idx = 0
    /\ orch_last = NoOrchLast
    /\ failed_io = {}
    /\ InitCallers

\* tool names a caller asks the orchestrator for
OrchCallNames == {"a_tool", "b_tool", "c_tool", "shared_tool", "create_offer"}

InitializeStep == connect_next \/ initialize_merge

NextOrch ==
    \/ initialize_begin
    \/ connect_next
    \/ initialize_merge
    \/ \E tool \in OrchCallNames, hb \in {"text", "raise"}, rid \in ReplyIds :
          orch_call_tool(tool, hb, rid)

SpecOrch == InitOrch /\ [][NextOrch]_vars

\* initialize, once called, keeps running
FairOrch == SpecOrch /\ WF_vars(InitializeStep)

(***************************************************************************)
(* mcp_client.py: servers added and removed while the bot runs             *)
(***************************************************************************)
\* a sequence without the entries equal to x
Without(seq, x) == SelectSeq(seq, LAMBDA y : y # x)

\* for tool in tools: map.pop(tool, None)
PopAll(map, tools) == [t \in DOMAIN map \ tools |-> map[t]]

\* MCPOrchestrator.add_external_server -> MCPClientManager.add_server, the
\* provider behaving as b when it is connected; the /mcp_add handler runs
\* it once the bot, having run initialize at startup, polls for updates
add_external_server(name, b) ==
    /\ init_pc = "done"
    /\ name \notin pending_disconnect
    /\ IF name \in DOMAIN conn
       THEN /\ mgmt_last' = [op |-> "add", name |-> name, ok |-> FALSE,
                             tools |-> {}, changed |-> FALSE,
                             before |-> cm_tool_to_server]
            /\ UNCHANGED <<server_order, conn, behaviour, cm_tool_to_server, init_pc>>
       ELSE LET r == _connect_stdio(name, NewConnection, b) IN
            /\ init_pc' = IF r.blocked THEN "blocked" ELSE init_pc
            /\ conn' = IF r.ok
                       THEN [s \in DOMAIN conn \cup {name} |->
                                IF s = name THEN r.conn ELSE conn[s]]
                       ELSE conn
            /\ behaviour' = IF r.ok
                            THEN [s \in DOMAIN behaviour \cup {name} |->
                                     IF s = name THEN b ELSE behaviour[s]]
                            ELSE behaviour
            /\ server_order' = IF r.ok THEN Append(server_order, name) ELSE server_order
            /\ cm_tool_to_server' =
                  IF r.ok THEN PutAll(cm_tool_to_server, Range(r.conn.tools), name)
                  ELSE cm_tool_to_server
            /\ mgmt_last' = IF r.blocked THEN mgmt_last
                            ELSE [op |-> "add", name |-> name, ok |-> r.ok,
                                  tools |-> IF r.ok THEN Range(r.conn.tools) ELSE {},
                                  changed |-> r.ok,
                                  before |-> cm_tool_to_server]
    /\ UNCHANGED <<orch_last, failed_io, orch_tool_to_server, init_idx,
                   pending_disconnect, orphan_procs>>
    /\ UNCHANGED <<execVars, wfVars, connVars>>

\* MCPOrchestrator.remove_external_server -> MCPClientManager.remove_server,
\* run by the /mcp_remove handler
remove_external_server(name) ==
    /\ init_pc = "done"
    /\ IF name \in DOMAIN conn
       THEN /\ pending_disconnect' = pending_disconnect \cup {name}
            /\ orphan_procs' = IF conn[name].process
                               THEN orphan_procs \cup {name} ELSE orphan_procs
            /\ cm_tool_to_server' = PopAll(cm_tool_to_server, Range(conn[name].tools))
            /\ conn' = [s \in DOMAIN conn \ {name} |-> conn[s]]
            /\ behaviour' = [s \in DOMAIN behaviour \ {name} |-> behaviour[s]]
            /\ server_order' = Without(server_order, name)
            /\ failed_io' = failed_io \ {name}
            /\ mgmt_last' = [op |-> "remove", name |-> name, ok |-> TRUE,
                             tools |-> Range(conn[name].tools), changed |-> TRUE,
                             before |-> cm_tool_to_server]
       ELSE /\ mgmt_last' = [op |-> "remove", name |-> name, ok |-> FALSE,
                             tools |-> {}, changed |-> FALSE,
                             before |-> cm_tool_to_server]
            /\ UNCHANGED <<server_order, conn, behaviour, failed_io,
                           cm_tool_to_server, pending_disconnect, orphan_procs>>
    /\ UNCHANGED <<orch_last, orch_tool_to_server, init_pc, init_idx>>
    /\ UNCHANGED <<execVars, wfVars, connVars>>

\* the task remove_server created runs: MCPServerConnection.disconnect
disconnect(name) ==
    /\ init_pc = "done"
    /\ name \in pending_disconnect
    /\ pending_disconnect' = pending_disconnect \ {name}
    /\ orphan_procs' = orphan_procs \ {name}
    /\ UNCHANGED <<mgmt_last>>
    /\ UNCHANGED <<execVars, orchVars, wfVars, connVars>>

\* names given to /mcp_remove: a configured server, the added one, one that
\* does not exist
RemoveNames == {"srvA", "srvD", "srvX"}

\* MCPOrchestrator() over a config naming srvA and srvB, both working
InitMgmt ==
    /\ InitExecFixed
    /\ InitWfIdle
    /\ InitCallers
    /\ server_order \in {<<"srvA", "srvB">>, <<"srvB", "srvA">>}
    /\ conn = [s \in {"srvA", "srvB"} |-> NewConnection]
    /\ behaviour = [s \in {"srvA", "srvB"} |-> "ok"]
    /\ cm_tool_to_server = <<>>
    /\ orch_tool_to_server = OrchConstructedMap
    /\ init_pc = "idle"
    /\ init_idx = 0
    /\ orch_last = NoOrchLast
    /\ failed_io = {}

NextMgmt ==
    \/ initialize_begin
    \/ connect_next
    \/ initialize_merge
    \/ \E name \in AddableServers \cup {"srvA"}, b \in ProviderBehaviours :
          add_external_server(name, b)
    \/ \E name \in RemoveNames : remove_external_server(name)
    \/ \E name \in RemoveNames : disconnect(name)
    \/ \E tool \in {"a_tool", "d_tool"} : orch_call_tool(tool, "text", "same")

SpecMgmt == InitMgmt /\ [][NextMgmt]_vars

(***************************************************************************)
(* mcp_client.py: calls made at the same time on one stdio connection      *)
(***************************************************************************)
\* ---- bounds ----
MaxCalls == 3

\* the provider the tasks call, and the tool they call on it
CalledServer == "srvB"
CalledTool == "b_tool"

\* the requests _connect_stdio wrote before the connection was connected
ConnectRequests == _connect_stdio(CalledServer, NewConnection, "ok").conn.request_id

Request(id, method) == [dir |-> "out", id |-> id, what |-> method]
ReplyLine(id, what) == [dir |-> "in", id |-> id, what |-> what]

\* the event loop may start running task p: no other task holds its thread.
\* A task that has written its request holds the thread until readline has
\* returned, _send_request having no await between the two.
LoopFree_AwaitBetween(p) == TRUE

LoopFree(p) == loop_owner = 0

\* a task that will call the tool is created (a handler of an update, a
\* gathered coroutine)
call_start(p) ==
    /\ call_pc[p] = "idle"
    /\ Cardinality({q \in Callers : call_pc[q] # "idle"}) + conn[CalledServer].request_id
          < ConnectRequests + MaxCalls
    /\ call_pc' = [call_pc EXCEPT ![p] = "scheduled"]
    /\ UNCHANGED <<call_id, loop_owner, wire>>
    /\ UNCHANGED <<execVars, orchVars, wfVars, mgmtVars>>

\* the loop runs task p: execute, MCPOrchestrator.call_tool,
\* MCPClientManager.call_tool, MCPServerConnection.call_tool and
\* _send_request up to the flush of the request, none of which suspends
call_write(p) ==
    /\ call_pc[p] = "scheduled"
    /\ LoopFree(p)
    /\ ReachedConnection(CalledTool) = CalledServer
    /\ LET request_id == conn[CalledServer].request_id + 1 IN
          /\ conn' = [conn EXCEPT ![CalledServer].request_id = request_id]
          /\ call_id' = [call_id EXCEPT ![p] = request_id]
          /\ wire' = Append(wire, Request(request_id, "tools/call"))
    /\ call_pc' = [call_pc EXCEPT ![p] = "written"]
    /\ loop_owner' = p
    /\ UNCHANGED <<server_order, behaviour, orch_last, failed_io, cm_tool_to_server,
                   orch_tool_to_server, init_pc, init_idx>>
    /\ UNCHANGED <<execVars, wfVars, mgmtVars>>

\* readline returns in task p with the provider's line, and the call
\* returns to its caller
call_read(p, hb, rid) ==
    /\ call_pc[p] = "written"
    /\ LET reply == ProviderReply(hb, rid, call_id[p]) IN
          /\ wire' = Append(wire, ReplyLine(IF reply.parsed THEN reply.id ELSE 0,
                                            SendRequestResult(call_id[p], reply)))
          /\ failed_io' = IF reply.parsed THEN failed_io
                          ELSE failed_io \cup {CalledServer}
          /\ orch_last' =
                [called |-> TRUE, tool |-> CalledTool,
                 out |-> OrchCallTool(CalledTool, SendRequestResult(call_id[p], reply)),
                 sent_to |-> CalledServer, request_id |-> call_id[p],
                 reply_id |-> IF reply.parsed THEN reply.id ELSE 0,
                 was_failed |-> CalledServer \in failed_io]
    /\ call_pc' = [call_pc EXCEPT ![p] = "idle"]
    /\ call_id' = [call_id EXCEPT ![p] = 0]
    /\ loop_owner' = IF loop_owner = p THEN 0 ELSE loop_owner
    /\ UNCHANGED <<server_order, conn, behaviour, cm_tool_to_server,
                   orch_tool_to_server, init_pc, init_idx>>
    /\ UNCHANGED <<execVars, wfVars, mgmtVars>>

\* MCPOrchestrator() over a config naming one working provider, after
\* initialize() has completed
InitConn ==
    /\ InitExecFixed
    /\ InitWfIdle
    /\ InitCallers
    /\ server_order = <<CalledServer>>
    /\ behaviour = [s \in {CalledServer} |-> "ok"]
    /\ conn = [s \in {CalledServer} |->
                  _connect_stdio(CalledServer, NewConnection, "ok").conn]
    /\ cm_tool_to_server =
          PutAll(<<>>, Range(ServerTools[CalledServer]), CalledServer)
    /\ orch_tool_to_server =
          PutAll(OrchConstructedMap, Range(ServerTools[CalledServer]),
                 [server |-> CalledServer, is_local |-> FALSE, is_extended |-> FALSE])
    /\ init_pc = "done"
    /\ init_idx = 2
    /\ orch_last = NoOrchLast
    /\ failed_io = {}

NextConn ==
    \/ \E p \in Callers : call_start(p)
    \/ \E p \in Callers : call_write(p)
    \/ \E p \in Callers, hb \in {"text", "raise"}, rid \in ReplyIds : call_read(p, hb, rid)

SpecConn == InitConn /\ [][NextConn]_vars

\* a list holding the elements of a set, in some order
RECURSIVE ListOf(_)
ListOf(S) ==
    IF S = {} THEN <<>>
    ELSE LET x == CHOOSE y \in S : TRUE IN <<x>> \o ListOf(S \ {x})

\* MCPClientManager.get_all_tools over the servers in dict order: the tools
\* of the connections that are connected, each with the server it is from
RECURSIVE CmGetAllTools(_)
CmGetAllTools(order) ==
    IF order = <<>> THEN <<>>
    ELSE LET s == Head(order)
             own == IF conn[s].connected
                    THEN [i \in 1..Len(conn[s].tools) |->
                             [name |-> conn[s].tools[i], server |-> s]]
                    ELSE <<>>
         IN own \o CmGetAllTools(Tail(order))

\* MCPOrchestrator.get_all_tools: the names of the merged schema list
OrchGetAllTools ==
    LET localTools == ListOf(UNION {LocalServers[s] : s \in DOMAIN LocalServers})
        skillTools == ListOf(UNION {RegistrySkills[s] : s \in DOMAIN RegistrySkills})
        external == CmGetAllTools(server_order)
    IN localTools \o skillTools \o [i \in 1..Len(external) |-> external[i].name]

\* MCPOrchestrator.get_tool_names
OrchGetToolNames == DOMAIN orch_tool_to_server

(***************************************************************************)
(* Properties of MCPOrchestrator.initialize                                *)
(***************************************************************************)
\* a tool is in the dispatch map and a call on it reaches its provider
Callable(tool) ==
    /\ tool \in DOMAIN orch_tool_to_server
    /\ OrchCallTool(tool, "text").invoked

\* C10: whatever provider srvA does when it is connected and wherever it
\* stands in the order, an initialize that was called completes, and from
\* then on every tool of srvB and srvC is in the dispatch map and callable.
C10_ProviderIsolation ==
    (init_pc = "connecting") ~>
        ( /\ init_pc = "done"
          /\ \A s \in {"srvB", "srvC"} : \A t \in Range(ServerTools[s]) : Callable(t) )


\* the dispatch map's entries that name an external connection
ExternalEntries ==
    {t \in DOMAIN orch_tool_to_server :
        ~orch_tool_to_server[t].is_local /\ ~orch_tool_to_server[t].is_extended}

\* the provider did not start, did not answer initialize with a result, or
\* sent a reply that could not be used
ConnectFailed(s) == behaviour[s] # "ok"

\* C11: once initialize has completed, a connection whose provider failed to
\* spawn, failed the handshake or sent a malformed reply is not connected
\* and holds no tools, and every entry of the dispatch map and of the merged
\* schema list that comes from an external connection comes from a
\* connected one.
C11_FailedContributesNothing ==
    init_pc = "done" =>
        /\ \A s \in DOMAIN conn :
              ConnectFailed(s) => ~conn[s].connected /\ conn[s].tools = <<>>
        /\ \A t \in ExternalEntries :
              /\ orch_tool_to_server[t].server \in DOMAIN conn
              /\ conn[orch_tool_to_server[t].server].connected
        /\ \A i \in 1..Len(CmGetAllTools(server_order)) :
              conn[CmGetAllTools(server_order)[i].server].connected


\* the initialize request written on s was answered with a result
InitializeSucceeded(s) ==
    conn[s].process /\ SendRequest(behaviour[s], "initialize") = "result"

\* C12: a connection is connected only if its initialize request was
\* answered with a result, and a tools/call request is written only to such
\* a connection.
C12_InitializeBeforeCalls ==
    \A s \in DOMAIN conn :
        /\ conn[s].connected => InitializeSucceeded(s)
        /\ (orch_last.called /\ orch_last.sent_to = s) => InitializeSucceeded(s)

\* C13: a call whose reply carries an id other than the id of the request
\* just written returns a ProtocolViolation error, never the reply's
\* payload.
C13_ReplyIdCorrelated ==
    ( /\ orch_last.called
      /\ orch_last.sent_to # None
      /\ orch_last.reply_id # 0
      /\ orch_last.reply_id # orch_last.request_id )
    => /\ orch_last.out.value = "ProtocolViolation"
       /\ orch_last.out.value # "stale_payload"

\* C14: a connection on which an exchange has failed is no longer
\* connected, and no tool call is written to a connection on which one has
\* failed before.
C14_FailedIsTerminal ==
    /\ \A s \in failed_io : ~conn[s].connected
    /\ (orch_last.called /\ orch_last.sent_to # None) => ~orch_last.was_failed


(***************************************************************************)
(* Properties of calls made at the same time on one connection             *)
(***************************************************************************)
\* the requests among the first n entries of wire that no reply line has
\* been read for
InFlight(n) ==
    Cardinality({i \in 1..n : wire[i].dir = "out"})
        - Cardinality({i \in 1..n : wire[i].dir = "in"})

RequestIdsWritten == SelectSeq(wire, LAMBDA e : e.dir = "out")

\* C15: at every moment at most one request written to the connection has
\* no reply line read for it (a request is written only after the line
\* answering the one before it was read), and the ids of the requests
\* written are strictly increasing.
C15_OneInFlight ==
    /\ \A n \in 0..Len(wire) : InFlight(n) \in {0, 1}
    /\ Cardinality({p \in Callers : call_pc[p] = "written"}) <= 1
    /\ \A i, j \in 1..Len(RequestIdsWritten) :
          i < j => RequestIdsWritten[i].id < RequestIdsWritten[j].id

\* two tasks exist at once, one has written its request and the other has
\* not run yet, after an earlier call was completed
C15_Witness ==
    /\ \E p, q \in Callers : call_pc[p] = "written" /\ call_pc[q] = "scheduled"
    /\ Len(RequestIdsWritten) >= 2


(***************************************************************************)
(* Properties of add_external_server and remove_external_server            *)
(***************************************************************************)
\* C16: once remove_external_server(name) has returned True, no entry of the
\* dispatch map names that server, none of the tools it held is among
\* get_tool_names or in the merged schema list unless a server still
\* registered provides it, and once the disconnect task has run its child
\* process is gone.
C16_RemovePurges ==
    (mgmt_last.op = "remove" /\ mgmt_last.ok) =>
        /\ \A t \in ExternalEntries : orch_tool_to_server[t].server # mgmt_last.name
        /\ \A t \in mgmt_last.tools :
              t \in OrchGetToolNames \cup Range(OrchGetAllTools) =>
                 \E s \in DOMAIN conn : t \in Range(conn[s].tools)
        /\ mgmt_last.name \notin pending_disconnect =>
              mgmt_last.name \notin orphan_procs

\* C17: once add_external_server(config) has returned True, every tool
\* discovered from the new provider is in the dispatch map, mapped to that
\* provider, and a call_tool on it reaches the provider; when it has
\* returned False it changed neither the dispatch map nor the servers.
C17_AddMerges ==
    /\ (mgmt_last.op = "add" /\ mgmt_last.ok) =>
          \A t \in mgmt_last.tools :
              /\ t \in DOMAIN orch_tool_to_server
              /\ orch_tool_to_server[t].server = mgmt_last.name
              /\ OrchCallTool(t, "text").invoked
    /\ (mgmt_last.op = "add" /\ ~mgmt_last.ok) => ~mgmt_last.changed


(***************************************************************************)
(* Properties of the dispatch map under name conflicts                     *)
(***************************************************************************)
\* the external connections whose provider listed tool t
ExternalExposing(t) ==
    {s \in DOMAIN conn : t \in Range(conn[s].tools)}

\* the providers exposing t: built-in servers, skill bundles, connections
Exposing(t) ==
    {s \in DOMAIN LocalServers : t \in LocalServers[s]}
        \cup {s \in DOMAIN RegistrySkills : t \in RegistrySkills[s]}
        \cup ExternalExposing(t)

\* the position of a server in servers.items()
PositionOf(s) == CHOOSE i \in 1..Len(server_order) : server_order[i] = s

\* the provider exposing t that was initialized last: the built-in servers
\* come first, then the skill bundles, then the connections in the order of
\* connect_all
LastInitialized(t) ==
    IF ExternalExposing(t) # {}
    THEN CHOOSE s \in ExternalExposing(t) :
            \A r \in ExternalExposing(t) : PositionOf(r) <= PositionOf(s)
    ELSE IF SkillOfTool(t) # None THEN SkillOfTool(t)
    ELSE CHOOSE s \in DOMAIN LocalServers : t \in LocalServers[s]

\* the provider MCPOrchestrator.call_tool hands a call on t to, None when it
\* answers with an error itself
DelegatedTo(t) ==
    IF t \notin DOMAIN orch_tool_to_server THEN None
    ELSE IF orch_tool_to_server[t].is_extended \/ orch_tool_to_server[t].is_local
    THEN orch_tool_to_server[t].server
    ELSE ReachedConnection(t)

\* C18: once initialize has completed, a tool name that two or more
\* providers expose has its one entry of the dispatch map pointing to the
\* provider initialized last among them, and a call on the name is handed to
\* that provider.
C18_LastRegistrationWins ==
    init_pc = "done" =>
        \A t \in OrchCallNames :
            Cardinality(Exposing(t)) >= 2 =>
                /\ t \in DOMAIN orch_tool_to_server
                /\ orch_tool_to_server[t].server = LastInitialized(t)
                /\ DelegatedTo(t) = LastInitialized(t)


(***************************************************************************)
(* Properties of the Task states                                           *)
(***************************************************************************)
\* C19: every Task, in memory or stored, is COMPLETED exactly when its
\* current_step equals len(steps) and none of its required steps is recorded
\* failed.
C19_CompletedIff ==
    \A id \in TaskIds : \A t \in TaskViews(id) :
        (t.status = "COMPLETED") <=>
            ( /\ t.current_step = Len(t.steps)
              /\ \A i \in 1..Len(t.steps) : ~FailedRequired(t, i) )

\* a Task of four steps in memory, COMPLETED, every step completed
C19_Witness ==
    \E id \in TaskIds :
        /\ active_workflows[id].status = "COMPLETED"
        /\ Len(active_workflows[id].steps) = 4
        /\ \A i \in 1..4 : active_workflows[id].steps[i].status = "completed"


\* C20: once a continue_workflow has stored a Task as COMPLETED or FAILED,
\* the Task in memory and its row keep that status, and no execute_step call
\* is made for the Task any more, however continue calls follow or overlap.
C20_TerminalStatus ==
    \A id \in TaskIds :
        wf_terminal[id].status # None =>
            /\ store[id].status = TaskStatusValue(wf_terminal[id].status)
            /\ active_workflows[id].status \in {"absent", wf_terminal[id].status}
            /\ Len(AttemptsOf(id)) = wf_terminal[id].attempts


(***************************************************************************)
(* Properties of WorkflowEngine.execute_step                               *)
(***************************************************************************)
\* C21: the tool of a workflow step is invoked only when the policy of the
\* ToolExecutor allows it at that moment; a step whose tool is blocked is
\* recorded without its tool being invoked.
C21_StepsUnderPolicy ==
    \A i \in 1..Len(attempts) : attempts[i].invoked => attempts[i].allowed


(***************************************************************************)
(* Properties of WorkflowEngine.start_workflow                             *)
(***************************************************************************)
\* C22: start_workflow with the name of a template leaves, in memory and in
\* the tasks table alike, a Task whose steps are the template's steps in
\* template order, each pending and without result, with current_step = 0,
\* status IN_PROGRESS, the caller's params and no results, and it makes no
\* execute_step call; with an unknown name it raises and leaves memory and
\* the tasks table as they were.
C22_StartBuildsTask ==
    [][\A name \in WorkflowNames, params \in CallerParams, id \in TaskIds :
          start_workflow(name, params, id) =>
            IF name \in DOMAIN WORKFLOWS
            THEN LET t == active_workflows'[id] IN
                 /\ ~wf_last'.raised
                 /\ wf_last'.id = id
                 /\ t.status = "IN_PROGRESS"
                 /\ wf_last'.status = "IN_PROGRESS"
                 /\ t.current_step = 0
                 /\ Len(t.steps) = Len(WORKFLOWS[name])
                 /\ \A i \in 1..Len(t.steps) :
                       /\ t.steps[i].step = WORKFLOWS[name][i]
                       /\ t.steps[i].status = "pending"
                       /\ t.steps[i].result = NoStepResult
                 /\ t.params = params
                 /\ t.results = <<>>
                 /\ t.error = NoError
                 /\ store'[id].status = "in_progress"
                 /\ TaskOfRow(store'[id]) = t
                 /\ attempts' = attempts
            ELSE /\ wf_last'.raised
                 /\ active_workflows' = active_workflows
                 /\ store' = store
                 /\ attempts' = attempts]_vars

\* start_workflow has just returned a Task of the four-step template, and
\* its row is in the tasks table
C22_Witness ==
    \E id \in TaskIds :
        /\ wf_last.op = "start" /\ ~wf_last.raised /\ wf_last.id = id
        /\ store[id].status = "in_progress"
        /\ Len(store[id].steps) = 4
        /\ store[id].steps[4].step.tool = "send_email"
        /\ active_workflows[id].current_step = 0
        /\ attempts = <<>>


(***************************************************************************)
(* Properties of MemorySystem.save_task / get_task                         *)
(***************************************************************************)
\* the Task objects of id held in memory
TasksInMemory(id) ==
    {t \in {active_workflows[id]}
           \cup {wf_local[p] : p \in {q \in Procs : wf_id[q] = id}} :
        t.status # "absent"}

C24_StepsRunOnce ==
    \A i, j \in 1..Len(attempts) :
        ( /\ i < j
          /\ attempts[i].id = attempts[j].id
          /\ attempts[i].idx = attempts[j].idx
          /\ attempts[i].run = attempts[j].run )
        => ~(attempts[i].invoked /\ attempts[j].invoked)


\* C25: once remove_external_server(name) has returned True, a tool the
\* removed server held whose entry of the manager's map pointed, before the
\* removal, to another server that is still registered and holds the tool
\* has kept that entry, and a call_tool on it reaches that server.
C25_RemoveKeepsOthers ==
    (mgmt_last.op = "remove" /\ mgmt_last.ok) =>
        \A t \in mgmt_last.tools :
            ( /\ t \in DOMAIN mgmt_last.before
              /\ mgmt_last.before[t] # mgmt_last.name
              /\ mgmt_last.before[t] \in DOMAIN conn
              /\ t \in Range(conn[mgmt_last.before[t]].tools) )
            => /\ t \in DOMAIN cm_tool_to_server
               /\ cm_tool_to_server[t] = mgmt_last.before[t]
               /\ ReachedConnection(t) = mgmt_last.before[t]


(***************************************************************************)
(* Properties of the merged schema list                                    *)
(***************************************************************************)
\* C26: whenever no initialize is under way, the names in the list
\* MCPOrchestrator.get_all_tools returns are exactly the keys of the
\* orchestrator's dispatch map, and no name is in the list twice.
C26_SchemaMatchesMap ==
    init_pc \in {"idle", "done"} =>
        /\ Range(OrchGetAllTools) = DOMAIN orch_tool_to_server
        /\ \A i, j \in 1..Len(OrchGetAllTools) :
              i # j => OrchGetAllTools[i] # OrchGetAllTools[j]


(***************************************************************************)
(* Properties of the recorded step outcomes                                *)
(***************************************************************************)
\* C27: in every Task, a step is recorded failed exactly when its tool was
\* not registered or the tool raised; a step whose tool returned, also with
\* a payload that reports success = false, is recorded completed, has been
\* passed, and is not the step the Task's error names.
C27_FailedIffMissingOrRaised ==
    \A id \in TaskIds : \A t \in TaskViews(id) : \A i \in 1..Len(t.steps) :
        LET st == t.steps[i] IN
        /\ (st.status = "failed") <=>
              \/ st.result = StepErr("Tool not found") /\ st.step.tool \notin wf_tools
              \/ st.result = StepErr("boom") /\ st.step.tool \in wf_tools
        /\ (st.status = "completed") <=>
              /\ st.result \in {StepOk("payload"), StepOk("success_false_payload")}
              /\ st.step.tool \in wf_tools
        /\ st.result = StepOk("success_false_payload") =>
              /\ st.status = "completed"
              /\ t.current_step >= i
              /\ t.error.step # st.step.name
        /\ st.status = "pending" <=> st.result = NoStepResult

\* a stored Task, COMPLETED, whose required second step returned a payload
\* reporting success = false
C27_Witness ==
    \E id \in TaskIds :
        /\ store[id].status = "completed"
        /\ store[id].steps[2].step.required
        /\ store[id].steps[2].status = "completed"
        /\ store[id].steps[2].result.result = "success_false_payload"
        /\ store[id].error.step = JsonNull


(***************************************************************************)
(* Properties of current_step                                              *)
(***************************************************************************)
\* the names of the steps of t that have been attempted
AttemptedNames(t) ==
    {t.steps[i].step.name : i \in {j \in 1..Len(t.steps) : t.steps[j].status # "pending"}}

\* C28: with continue calls made one after the other, every Task has
\* 0 <= current_step <= len(steps), every step below current_step is
\* completed or failed, every step above it is pending, and the results
\* dict has one entry, under the step's name and equal to the step's
\* recorded result, for exactly the steps that are no longer pending.
C28_StepIndexInvariant ==
    \A id \in TaskIds : \A t \in TaskViews(id) :
        /\ 0 <= t.current_step /\ t.current_step <= Len(t.steps)
        /\ \A i \in 1..Len(t.steps) :
              /\ i - 1 < t.current_step => t.steps[i].status \in {"completed", "failed"}
              /\ i - 1 > t.current_step => t.steps[i].status = "pending"
              /\ t.steps[i].status # "pending" =>
                    /\ t.steps[i].step.name \in DOMAIN t.results
                    /\ t.results[t.steps[i].step.name] = t.steps[i].result
        /\ DOMAIN t.results = AttemptedNames(t)

\* a call waits for the tool of the third of four steps: two steps are
\* recorded, one of them failed, and two are pending
C28_Witness ==
    \E id \in TaskIds :
        /\ wf_pc[1] = "awaiting" /\ wf_id[1] = id
        /\ Len(TaskOf(1).steps) = 4
        /\ TaskOf(1).current_step = 3
        /\ TaskOf(1).steps[3].status = "failed"
        /\ TaskOf(1).steps[4].status = "pending"
        /\ Cardinality(DOMAIN TaskOf(1).results) = 3


(***************************************************************************)
(* Properties of the parameters given to a step's tool                     *)
(***************************************************************************)
\* C29: the parameters every invoked step tool was called with are the
\* Task's workflow-level params overlaid by the step's static params (for
\* a key both hold, the step's value), and every Task still has the params
\* its caller gave and steps equal to those of a template.
C29_StepParamsWin ==
    /\ \A n \in 1..Len(attempts) :
          LET a == attempts[n]
              t == TaskOfRow(store[a.id])
              static == t.steps[a.idx + 1].step.params
          IN a.invoked =>
                \A k \in ParamKeys :
                    a.params[k] = IF static[k] # None THEN static[k] ELSE t.params[k]
    /\ \A id \in TaskIds : \A t \in TaskViews(id) :
          /\ t.params \in CallerParams
          /\ \E name \in DOMAIN WORKFLOWS :
                /\ Len(t.steps) = Len(WORKFLOWS[name])
                /\ \A i \in 1..Len(t.steps) : t.steps[i].step = WORKFLOWS[name][i]

\* update_candidate_status was called with status = "offer", the value of
\* its step, for a Task whose caller gave status = "screening"
C29_Witness ==
    \E n \in 1..Len(attempts) :
        /\ attempts[n].invoked
        /\ attempts[n].tool = "update_candidate_status"
        /\ attempts[n].params["status"] = "offer"
        /\ attempts[n].params["type"] = None
        /\ store[attempts[n].id].params["status"] = "screening"


(***************************************************************************)
(* Termination of continue_workflow                                        *)
(***************************************************************************)
\* the tools invoked for id since the last restart
InvokedThisRun(id) ==
    SelectSeq(attempts, LAMBDA a : a.id = id /\ a.invoked /\ a.run = crashes)

\* what holds of continue calls made one after the other, in every state
ContinueBounded ==
    \A id \in TaskIds :
        \* a returned continue_workflow returned the Task COMPLETED or FAILED,
        \* and that is the status of the Task in memory and in the table
        /\ (wf_last.op = "continue" /\ wf_last.id = id /\ ~wf_last.raised) =>
              /\ wf_last.status \in {"COMPLETED", "FAILED"}
              /\ \A t \in TaskViews(id) : t.status = wf_last.status
        \* a call that finds the Task IN_PROGRESS finds it at current_step 0 ...
        /\ \A t \in TaskViews(id) :
              (t.status = "IN_PROGRESS" /\ \A p \in Procs : wf_pc[p] = "idle")
                 => t.current_step = 0
        \* ... and invokes the tools of steps of increasing index below
        \* len(steps), so at most len(steps) - current_step of them
        /\ \A n, m \in 1..Len(InvokedThisRun(id)) :
              n < m => InvokedThisRun(id)[n].idx < InvokedThisRun(id)[m].idx
        /\ \A n \in 1..Len(InvokedThisRun(id)) :
              InvokedThisRun(id)[n].idx < Len(store[id].steps)
        /\ Len(InvokedThisRun(id)) <= Len(store[id].steps)

\* C30: a continue_workflow call on an IN_PROGRESS Task whose tools all
\* return comes to its end, has invoked at most len(steps) - current_step
\* tools, and returns the Task COMPLETED or FAILED.
C30_ContinueTerminates ==
    /\ []ContinueBounded
    /\ (wf_pc[1] = "awaiting") ~> (wf_pc[1] = "idle")

\* a continue_workflow has returned a four-step Task COMPLETED after
\* invoking four tools
C30_Witness ==
    \E id \in TaskIds :
        /\ wf_last.op = "continue" /\ wf_last.id = id /\ ~wf_last.raised
        /\ wf_last.status = "COMPLETED"
        /\ Len(store[id].steps) = 4
        /\ Len(InvokedThisRun(id)) = 4
        /\ wf_pc[1] = "idle"

====
